---- MODULE Spec2Model ----
(***************************************************************************)
(* Operation queue, retry and circuit-breaker core of the backend:         *)
(*   backend/app/services/operation_queue.py   (PriorityQueue,             *)
(*                                               OperationQueueManager)    *)
(*   backend/app/services/retry_strategies.py  (CircuitBreaker, ...)       *)
(*   backend/app/services/retry_handler.py     (RetryHandler)              *)
(*   backend/app/models/errors.py              (error classes)             *)
(*                                                                         *)
(* The asyncio event loop runs one coroutine at a time; a coroutine keeps  *)
(* the processor until it reaches an await that really suspends (the       *)
(* handler, asyncio.sleep).  Each action below is therefore everything a   *)
(* coroutine does from one suspension point to the next.                   *)
(***************************************************************************)
EXTENDS Integers, Sequences, FiniteSets, TLC

\* ---------------------------------------------------------------- bounds
NumOps == 2
NumLoops == 2
\* calls of enqueue_operation made by callers (retries are not counted)
MaxSubmits == 3
\* concurrent callers of CircuitBreaker.call, and calls they make
NumCallers == 2
MaxCalls == 8
\* operation keys of the RetryHandler, and execute_with_retry calls made
NumKeys == 1
\* websockets, concurrent broadcast_operation_update calls, calls in all
NumClients == 2
\* start_processing loops and named queues of the limit's own specification
NumGateLoops == 11
NumGateQueues == 2
NumBroadcasters == 1
MaxBroadcasts == 2
MaxExecutes == 6
\* attempts of one retried call whose delays are computed
MaxAttempts == 8
\* the clock advances by ShortTick seconds up to ShortHorizon and by LongTick
\* seconds up to Horizon
ShortTick == 30
ShortHorizon == 120
LongTick == 1800
Horizon == 3720

Ops == 1..NumOps
Loops == 1..NumLoops
Callers == 1..NumCallers
Keys == 1..NumKeys
\* Python's None where an Operation, a caller or a key is expected
None == 0
\* Python's None where a datetime is expected
Never == -1

\* ------------------------------------------------------- program constants
max_concurrent == 10
\* CircuitBreaker.__init__ defaults
failure_threshold == 5
reset_timeout == 60
\* RetryConfig.__init__ default, in seconds
max_delay == 60
QueueNames == {"default", "batch"}
Priorities == {"high", "normal", "low"}

VARIABLES
    \* Operation objects (models/operations.py)
    priority, capability, status, retry_count, result, progress,
    \* OperationQueueManager
    qorder, queues, entry_count, active_operations, operation_handlers, stats,
    \* start_processing coroutines
    pc, cur, it,
    \* history of what the code did (not program state)
    submits, invocations, delays, arrival, terminated, cancelRequested,
    \* datetime.utcnow(), in seconds
    now,
    \* CircuitBreaker (services/retry_strategies.py), the holder of its _lock
    failures, last_failure_time, state, cb_holder,
    \* history of the calls made to the CircuitBreaker
    cb_calls, cb_consecutive, cb_last,
    \* RetryHandler (services/retry_handler.py)
    retry_counts, circuit_breakers,
    \* execute_with_retry coroutines, one per key: position, RetryState.attempts,
    \* config.max_retries
    rh_pc, rh_attempts, rh_max_retries,
    \* history of the calls made to the RetryHandler
    rh_calls, rh_invocations, rh_last, rh_error,
    \* a RetryConfig, and the RetryState of one retry_operation call: attempts,
    \* the delay calculate_delay returned (milliseconds) and the one before it
    config, rs_attempts, rs_delay, rs_previous,
    \* one operation retried by the queue manager: metadata retry_count, the
    \* delay _calculate_retry_delay returned (seconds) and the one before it
    mr_count, mr_delay, mr_previous,
    \* Operation.project_id, Operation.agent_id
    project_id, agent_id,
    \* OperationsWebsocketManager (websockets/operations.py); client_heartbeats
    \* as the set of its keys
    active_connections, project_connections, agent_connections,
    client_subscriptions, client_heartbeats,
    \* handle_websocket coroutines, one per websocket; broadcast_operation_update
    \* coroutines
    ws_pc, bc,
    \* history: the messages each websocket was sent, the subscriptions argument
    \* of its connect, whether disconnect was called for it, the broadcasts begun
    inbox, connected_with, dropped, log,
    \* start_processing's limit on its own: len(active_operations), and for each
    \* of many loops its position and the queue its `for` loop is at
    gate_active, gate_pc, gate_it

opVars == <<priority, capability, status, retry_count, result, progress>>
mgrVars == <<qorder, queues, entry_count, active_operations, operation_handlers, stats>>
loopVars == <<pc, cur, it>>
histVars == <<submits, invocations, delays, arrival, terminated, cancelRequested>>
queueVars == <<opVars, mgrVars, loopVars, histVars>>
cbVars == <<failures, last_failure_time, state, cb_holder, cb_calls, cb_consecutive, cb_last>>
rhVars == <<retry_counts, circuit_breakers, rh_pc, rh_attempts, rh_max_retries,
            rh_calls, rh_invocations, rh_last, rh_error>>
delayVars == <<config, rs_attempts, rs_delay, rs_previous, mr_count, mr_delay, mr_previous>>
wsVars == <<project_id, agent_id, active_connections, project_connections, agent_connections,
            client_subscriptions, client_heartbeats, ws_pc, bc,
            inbox, connected_with, dropped, log>>
gateVars == <<gate_active, gate_pc, gate_it>>
vars == <<queueVars, now, cbVars, rhVars, delayVars, wsVars, gateVars>>

\* ------------------------------------------------------------ error classes
\* OperationError(message) with the constructor's defaults
OperationError == [class |-> "OperationError", code |-> "UNKNOWN", retry_strategy |-> "NO_RETRY", max_retries |-> 0]
NetworkError == [class |-> "OperationError", code |-> "NETWORK_ERROR", retry_strategy |-> "EXPONENTIAL_BACKOFF", max_retries |-> 5]
ValidationError == [class |-> "OperationError", code |-> "VALIDATION_ERROR", retry_strategy |-> "NO_RETRY", max_retries |-> 0]
TimeoutError == [class |-> "OperationError", code |-> "OPERATION_TIMEOUT", retry_strategy |-> "LINEAR_BACKOFF", max_retries |-> 3]
\* an exception that is no OperationError (ValueError, KeyError, ...)
PlainException == [class |-> "Exception", code |-> "UNKNOWN", retry_strategy |-> "NO_RETRY", max_retries |-> 0]
\* what _handle_operation_error builds for it
DefaultRetryError == [class |-> "OperationError", code |-> "UNKNOWN", retry_strategy |-> "EXPONENTIAL_BACKOFF", max_retries |-> 3]
NoError == [class |-> "none", code |-> "none", retry_strategy |-> "none", max_retries |-> 0]

\* What the handler registered for a capability does when awaited:
\* "return", or the exception it raises ("timeout": it outlives the deadline).
HandlerOutcomes(c) ==
    CASE c = "net"  -> {"NetworkError"}
      [] c = "work" -> {"return", "ValidationError", "Exception", "timeout"}

\* ------------------------------------------------------------ PriorityQueue
\* variant: the values of HIGH and LOW exchanged
_get_priority_value_Swapped(p) ==
    CASE p = "high" -> 2
      [] p = "normal" -> 1
      [] p = "low" -> 0
      [] OTHER -> 1

_get_priority_value(p) ==
    CASE p = "high" -> 0
      [] p = "normal" -> 1
      [] p = "low" -> 2
      [] OTHER -> 1

\* Operation.created_at (default_factory = datetime.utcnow): callers build an
\* operation when they first submit it, so operations are numbered in the
\* order of their creation and no two share a timestamp
created_at(o) == o

\* (priority, created_at, operation) < (priority, created_at, operation)
EntryLess(a, b) ==
    \/ _get_priority_value(priority[a]) < _get_priority_value(priority[b])
    \/ /\ _get_priority_value(priority[a]) = _get_priority_value(priority[b])
       /\ created_at(a) < created_at(b)

\* heapq._siftdown(heap, startpos, pos), positions counted from 1
RECURSIVE _siftdown(_, _, _, _)
_siftdown(heap, startpos, pos, newitem) ==
    IF pos > startpos /\ EntryLess(newitem, heap[pos \div 2])
    THEN _siftdown([heap EXCEPT ![pos] = heap[pos \div 2]], startpos, pos \div 2, newitem)
    ELSE [heap EXCEPT ![pos] = newitem]

\* heapq._siftup(heap, pos): bubble the smaller child up to a leaf, then sift down
RECURSIVE _siftup(_, _, _, _)
_siftup(heap, startpos, pos, newitem) ==
    LET endpos == Len(heap)
        leftpos == 2 * pos
        rightpos == leftpos + 1
        childpos == IF rightpos <= endpos /\ ~EntryLess(heap[leftpos], heap[rightpos])
                    THEN rightpos ELSE leftpos
    IN  IF leftpos <= endpos
        THEN _siftup([heap EXCEPT ![pos] = heap[childpos]], startpos, childpos, newitem)
        ELSE _siftdown([heap EXCEPT ![pos] = newitem], startpos, pos, newitem)

heappush(heap, item) == _siftdown(Append(heap, item), 1, Len(heap) + 1, item)

heappop(heap) ==
    LET lastelt == heap[Len(heap)]
        rest == SubSeq(heap, 1, Len(heap) - 1)
    IN  IF rest = <<>> THEN <<>> ELSE _siftup(rest, 1, 1, lastelt)

push(heap, operation) == heappush(heap, operation)
pop(heap) == IF heap = <<>> THEN heap ELSE heappop(heap)
peek(heap) == IF heap = <<>> THEN None ELSE heap[1]

InHeap(heap, o) == \E i \in 1..Len(heap) : heap[i] = o

\* first position of o in a sequence, 0 when absent
FirstIndex(seq, o) ==
    IF \E i \in 1..Len(seq) : seq[i] = o
    THEN CHOOSE i \in 1..Len(seq) : seq[i] = o /\ \A j \in 1..(i - 1) : seq[j] # o
    ELSE 0

RemoveAt(seq, i) == SubSeq(seq, 1, i - 1) \o SubSeq(seq, i + 1, Len(seq))

\* the manager and its operations as one value, so that the calls a
\* coroutine makes in a row can be composed
M ==
    [status |-> status, retry_count |-> retry_count,
     qorder |-> qorder, queues |-> queues, entry_count |-> entry_count,
     active_operations |-> active_operations, stats |-> stats,
     invocations |-> invocations, delays |-> delays, arrival |-> arrival,
     terminated |-> terminated]

Commit(m) ==
    /\ status' = m.status
    /\ retry_count' = m.retry_count
    /\ qorder' = m.qorder
    /\ queues' = m.queues
    /\ entry_count' = m.entry_count
    /\ active_operations' = m.active_operations
    /\ stats' = m.stats
    /\ invocations' = m.invocations
    /\ delays' = m.delays
    /\ arrival' = m.arrival
    /\ terminated' = m.terminated

\* _calculate_retry_delay(strategy, retry_count, base_delay = 1.0)
_calculate_retry_delay(strategy, n) ==
    CASE strategy = "IMMEDIATE" -> 0
      [] strategy = "LINEAR_BACKOFF" -> 1 * n
      [] strategy = "EXPONENTIAL_BACKOFF" -> 1 * (2 ^ (n - 1))
      [] OTHER -> 1

\* variant: every error is retried the way a non-OperationError is
RetryError_AlwaysRetry(error) == DefaultRetryError

\* _handle_operation_error: the error _retry_operation is called with,
\* NoError when _retry_operation is not called
RetryError(error) ==
    IF error.class = "OperationError"
    THEN IF error.retry_strategy # "NO_RETRY" THEN error ELSE NoError
    ELSE DefaultRetryError

\* variant: the retry limit compared with > instead of >=
RetriesExhausted_OffByOne(n, error) == n > error.max_retries

\* variant: two retries more than max_retries
RetriesExhausted_TwoMore(n, error) == n >= error.max_retries + 2

\* _retry_operation's early return: retry_count >= error.max_retries
RetriesExhausted(n, error) == n >= error.max_retries

\* variant: the dispatch test with the active_operations check inverted
MayProcess_OnlyActive(operation, active) == operation # None /\ operation \in active

\* variant: the dispatch test without the active_operations check
MayProcess_NoActiveCheck(operation, active) == operation # None

\* start_processing's guard on the operation it peeked
MayProcess(operation, active) == operation # None /\ operation \notin active

\* self.queues[queue_name]: the defaultdict creates a missing queue
Touch(order, queue_name) ==
    IF \E i \in 1..Len(order) : order[i] = queue_name THEN order ELSE Append(order, queue_name)

ZeroStats == [total_count |-> 0, success_count |-> 0, failure_count |-> 0]

\* _update_stats(operation, queue_name): the counters
_update_stats(m, o, queue_name) ==
    [m EXCEPT !.stats[queue_name] =
        [total_count |-> @.total_count + 1,
         success_count |-> @.success_count + (IF m.status[o] = "completed" THEN 1 ELSE 0),
         failure_count |-> @.failure_count + (IF m.status[o] = "failed" THEN 1 ELSE 0)]]

\* enqueue_operation(operation, queue_name): status = QUEUED; push
Enqueue(m, o, queue_name) ==
    [m EXCEPT !.status[o] = "queued",
              !.qorder = Touch(@, queue_name),
              !.queues[queue_name] = push(@, o),
              !.entry_count[queue_name] = @ + 1,
              !.arrival[queue_name] = Append(@, o)]

\* variant: the finally block leaves the operation in active_operations
Finally_KeepActive(m, o, queue_name) == _update_stats(m, o, queue_name)

\* _process_operation's finally block
Finally(m, o, queue_name) ==
    _update_stats([m EXCEPT !.active_operations = @ \ {o}], o, queue_name)

\* _process_operation's `except Exception as e`: status = FAILED, error = str(e),
\* _handle_operation_error(operation, e).  Then either _retry_operation counts
\* the retry, marks the operation RETRYING and awaits the delay (suspend), or
\* the finally block ends the call with the operation left FAILED.
OnException(m, o, queue_name, e) ==
    LET error == RetryError(e)
        failed == [m EXCEPT !.status[o] = "failed", !.terminated[o] = TRUE]
        n == m.retry_count[o] + 1
    IN  IF error = NoError \/ RetriesExhausted(m.retry_count[o], error)
        THEN [m |-> Finally(failed, o, queue_name), suspend |-> "none"]
        ELSE [m |-> [failed EXCEPT !.retry_count[o] = n,
                                   !.status[o] = "retrying",
                                   !.delays[o] = Append(@, _calculate_retry_delay(error.retry_strategy, n))],
              suspend |-> "retry_sleep"]

\* _process_operation(operation, queue_name) up to its first suspension:
\* pop, RUNNING, active_operations[id] = operation; then the handler is
\* awaited, or there is none and OperationError("No handler found ...") is raised
_process_operation(m, o, queue_name) ==
    LET started == [m EXCEPT !.queues[queue_name] = pop(@),
                             !.arrival[queue_name] = RemoveAt(@, FirstIndex(@, peek(m.queues[queue_name]))),
                             !.status[o] = "running",
                             !.active_operations = @ \cup {o}]
    IN  IF capability[o] \in operation_handlers
        THEN [m |-> [started EXCEPT !.invocations[o] = @ + 1], suspend |-> "handler"]
        ELSE OnException(started, o, queue_name, OperationError)

Idle == [op |-> None, queue_name |-> "default"]
NoIter == [idx |-> 0, size |-> 0]

\* `for queue_name, queue in self.queues.items()` from entry idx on, up to the
\* next suspension: the handler's await, a retry delay, or the sleep that ends
\* the pass (0.1 s, or 1 s after "RuntimeError: dictionary changed size during
\* iteration", which start_processing catches)
RECURSIVE ForLoop(_, _, _)
ForLoop(m, idx, size) ==
    IF Len(m.qorder) # size \/ idx > size
    THEN [m |-> m, pc |-> "sleep", cur |-> Idle, it |-> NoIter]
    ELSE LET queue_name == m.qorder[idx]
             operation == peek(m.queues[queue_name])
             r == _process_operation(m, operation, queue_name)
         IN  IF MayProcess(operation, m.active_operations)
             THEN IF r.suspend = "none"
                  THEN ForLoop(r.m, idx + 1, size)
                  ELSE [m |-> r.m, pc |-> r.suspend,
                        cur |-> [op |-> operation, queue_name |-> queue_name],
                        it |-> [idx |-> idx + 1, size |-> size]]
             ELSE ForLoop(m, idx + 1, size)

\* the state of loop l and of the manager after a step of l that ends as r says
Resume(l, r) ==
    /\ Commit(r.m)
    /\ pc' = [pc EXCEPT ![l] = r.pc]
    /\ cur' = [cur EXCEPT ![l] = r.cur]
    /\ it' = [it EXCEPT ![l] = r.it]

\* operation.metadata as the manager leaves it: _retry_operation writes the
\* key "retry_count", and nothing else writes to it
metadata(o) == IF retry_count[o] > 0 THEN [retry_count |-> retry_count[o]] ELSE <<>>

\* the manager after __init__, no queue created yet, no loop started
InitQueue ==
    /\ priority \in {f \in [Ops -> Priorities] : f[1] = "normal"}
    /\ capability = [o \in Ops |-> IF o % 2 = 1 THEN "net" ELSE "work"]
    /\ status = [o \in Ops |-> "queued"]
    /\ retry_count = [o \in Ops |-> 0]
    /\ result = [o \in Ops |-> "None"]
    /\ progress = [o \in Ops |-> 0]
    /\ qorder = <<>>
    /\ queues = [q \in QueueNames |-> <<>>]
    /\ entry_count = [q \in QueueNames |-> 0]
    /\ active_operations = {}
    /\ operation_handlers = {}
    /\ stats = [q \in QueueNames |-> ZeroStats]
    /\ pc = [l \in Loops |-> "init"]
    /\ cur = [l \in Loops |-> Idle]
    /\ it = [l \in Loops |-> NoIter]
    /\ submits = [o \in Ops |-> 0]
    /\ invocations = [o \in Ops |-> 0]
    /\ delays = [o \in Ops |-> <<>>]
    /\ arrival = [q \in QueueNames |-> <<>>]
    /\ terminated = [o \in Ops |-> FALSE]
    /\ cancelRequested = None

RECURSIVE Sum(_, _)
Sum(f, S) == IF S = {} THEN 0 ELSE LET x == CHOOSE x \in S : TRUE IN f[x] + Sum(f, S \ {x})

\* a caller submits an operation (again: the same object)
enqueue_operation(o, queue_name) ==
    /\ Sum(submits, Ops) < MaxSubmits
    /\ \A earlier \in Ops : created_at(earlier) < created_at(o) => submits[earlier] > 0
    /\ Commit(Enqueue(M, o, queue_name))
    /\ submits' = [submits EXCEPT ![o] = @ + 1]
    /\ UNCHANGED <<priority, capability, result, progress, operation_handlers, loopVars, cancelRequested>>
    /\ UNCHANGED <<now, cbVars, rhVars, delayVars, wsVars, gateVars>>

register_handler(c) ==
    /\ c \notin operation_handlers
    /\ operation_handlers' = operation_handlers \cup {c}
    /\ UNCHANGED <<opVars, qorder, queues, entry_count, active_operations, stats, loopVars, histVars>>
    /\ UNCHANGED <<now, cbVars, rhVars, delayVars, wsVars, gateVars>>

\* PriorityQueue.remove(operation_id) on a queued operation:
\* heapq.heappop(self.queue[i]) is handed the entry (a tuple), not the heap,
\* and raises TypeError; nothing is removed and no status is touched.
remove(queue_name, o) ==
    /\ InHeap(queues[queue_name], o)
    /\ cancelRequested = None
    /\ cancelRequested' = o
    /\ UNCHANGED <<opVars, mgrVars, loopVars, submits, invocations, delays, arrival, terminated>>
    /\ UNCHANGED <<now, cbVars, rhVars, delayVars, wsVars, gateVars>>

\* start_processing: one pass of `while True`, on entry and after each sleep
start_processing(l) ==
    /\ pc[l] \in {"init", "sleep"}
    /\ IF Cardinality(active_operations) < max_concurrent
       THEN Resume(l, ForLoop(M, 1, Len(qorder)))
       ELSE Resume(l, [m |-> M, pc |-> "sleep", cur |-> Idle, it |-> NoIter])
    /\ UNCHANGED <<priority, capability, result, progress, operation_handlers, submits, cancelRequested>>
    /\ UNCHANGED <<now, cbVars, rhVars, delayVars, wsVars, gateVars>>

\* the value the handler registered for o's capability returns
ReturnValue(o) == "value"

\* the handler returns: operation.result = result, COMPLETED; finally; the for
\* loop goes on.  Nothing assigns operation.progress.
HandlerReturn(l) ==
    LET o == cur[l].op
        completed == [M EXCEPT !.status[o] = "completed", !.terminated[o] = TRUE]
    IN  /\ pc[l] = "handler"
        /\ "return" \in HandlerOutcomes(capability[o])
        /\ Resume(l, ForLoop(Finally(completed, o, cur[l].queue_name), it[l].idx, it[l].size))
        /\ result' = [result EXCEPT ![o] = ReturnValue(o)]
        /\ UNCHANGED <<priority, capability, progress, operation_handlers, submits, cancelRequested>>
        /\ UNCHANGED <<now, cbVars, rhVars, delayVars, wsVars, gateVars>>

\* the exception _process_operation's `except Exception as e` receives
Raised(outcome) ==
    CASE outcome = "NetworkError" -> NetworkError
      [] outcome = "ValidationError" -> ValidationError
      [] outcome = "timeout" -> TimeoutError
      [] OTHER -> PlainException

\* the handler raises, or the deadline expires (asyncio.TimeoutError -> TimeoutError)
HandlerRaise(l, outcome) ==
    LET o == cur[l].op
        r == OnException(M, o, cur[l].queue_name, Raised(outcome))
    IN  /\ pc[l] = "handler"
        /\ outcome \in HandlerOutcomes(capability[o]) \ {"return"}
        /\ IF r.suspend = "none"
           THEN Resume(l, ForLoop(r.m, it[l].idx, it[l].size))
           ELSE Resume(l, [m |-> r.m, pc |-> r.suspend, cur |-> cur[l], it |-> it[l]])
        /\ UNCHANGED <<priority, capability, result, progress, operation_handlers, submits, cancelRequested>>
        /\ UNCHANGED <<now, cbVars, rhVars, delayVars, wsVars, gateVars>>

\* the retry delay is over: await self.enqueue_operation(operation) (queue
\* "default"), the finally block of _process_operation; the for loop goes on
RetryWake(l) ==
    LET o == cur[l].op
    IN  /\ pc[l] = "retry_sleep"
        /\ Resume(l, ForLoop(Finally(Enqueue(M, o, "default"), o, cur[l].queue_name),
                             it[l].idx, it[l].size))
        /\ UNCHANGED <<priority, capability, result, progress, operation_handlers, submits, cancelRequested>>
        /\ UNCHANGED <<now, cbVars, rhVars, delayVars, wsVars, gateVars>>

Outcomes == {"return", "NetworkError", "ValidationError", "Exception", "timeout"}

Next ==
    \/ \E o \in Ops, q \in QueueNames : enqueue_operation(o, q)
    \/ \E o \in Ops : register_handler(capability[o])
    \/ \E l \in Loops : start_processing(l)
    \/ \E l \in Loops : HandlerReturn(l)
    \/ \E l \in Loops, outcome \in Outcomes : HandlerRaise(l, outcome)
    \/ \E l \in Loops : RetryWake(l)

\* the same program with callers that also use PriorityQueue.remove
NextCancel ==
    \/ Next
    \/ \E o \in Ops, q \in QueueNames : remove(q, o)

\* ------------------------------------------------------------------ clock
\* time passes between two steps of the program
Tick(d) ==
    /\ IF d = ShortTick THEN now < ShortHorizon ELSE now + d <= Horizon
    /\ now' = now + d
    /\ UNCHANGED <<queueVars, cbVars, rhVars, delayVars, wsVars, gateVars>>

\* ---------------------------------------------------------- CircuitBreaker
InitCB ==
    /\ failures = 0
    /\ last_failure_time = Never
    /\ state = "closed"
    /\ cb_holder = None
    /\ cb_calls = 0
    /\ cb_consecutive = 0
    /\ cb_last = "none"

\* variant: the reset timeout compared with > instead of >=
_check_state_Late(s, lft, t) ==
    IF s = "open" /\ lft # Never /\ t - lft > reset_timeout THEN "half-open" ELSE s

\* _check_state: the state it leaves, at time t
_check_state(s, lft, t) ==
    IF s = "open" /\ lft # Never /\ t - lft >= reset_timeout THEN "half-open" ELSE s

_record_failure ==
    /\ failures' = failures + 1
    /\ last_failure_time' = now
    /\ state' = IF failures + 1 >= failure_threshold THEN "open" ELSE state

_close ==
    /\ state' = "closed"
    /\ failures' = 0
    /\ last_failure_time' = Never

\* call, from taking _lock to the await of the wrapped operation, or to the
\* RESOURCE_BUSY OperationError (LINEAR_BACKOFF, max_retries 3) of an open
\* breaker, which releases the lock
call(c) ==
    LET s == _check_state(state, last_failure_time, now)
    IN  /\ cb_holder = None
        /\ cb_calls < MaxCalls
        /\ cb_calls' = cb_calls + 1
        /\ state' = s
        /\ IF s = "open"
           THEN cb_holder' = None /\ cb_last' = "RESOURCE_BUSY"
           ELSE cb_holder' = c /\ cb_last' = "invoked"
        /\ UNCHANGED <<failures, last_failure_time, cb_consecutive>>
        /\ UNCHANGED <<now, queueVars, rhVars, delayVars, wsVars, gateVars>>

\* the wrapped operation returns: _close when half-open; the lock is released
OperationReturns(c) ==
    /\ cb_holder = c
    /\ IF state = "half-open" THEN _close ELSE UNCHANGED <<state, failures, last_failure_time>>
    /\ cb_holder' = None
    /\ cb_consecutive' = 0
    /\ cb_last' = "return"
    /\ UNCHANGED <<cb_calls, now, queueVars, rhVars, delayVars, wsVars, gateVars>>

\* the wrapped operation raises: _record_failure; the lock is released
OperationRaises(c) ==
    /\ cb_holder = c
    /\ _record_failure
    /\ cb_holder' = None
    /\ cb_consecutive' = cb_consecutive + 1
    /\ cb_last' = "raise"
    /\ UNCHANGED <<cb_calls, now, queueVars, rhVars, delayVars, wsVars, gateVars>>

NextCB ==
    \/ \E c \in Callers : call(c)
    \/ \E c \in Callers : OperationReturns(c)
    \/ \E c \in Callers : OperationRaises(c)
    \/ \E d \in {ShortTick, LongTick} : Tick(d)

\* ------------------------------------------------------------ RetryHandler
InitRH ==
    /\ retry_counts = <<>>
    /\ circuit_breakers = <<>>
    /\ rh_pc = [k \in Keys |-> "idle"]
    /\ rh_attempts = [k \in Keys |-> 0]
    /\ rh_max_retries = [k \in Keys |-> 0]
    /\ rh_calls = 0
    /\ rh_invocations = [k \in Keys |-> 0]
    /\ rh_last = [k \in Keys |-> "none"]
    /\ rh_error = [k \in Keys |-> "none"]

\* d[key] = value, del d[key]
SetItem(d, key, value) == [x \in DOMAIN d \cup {key} |-> IF x = key THEN value ELSE d[x]]
DelItems(d, keys) == [x \in DOMAIN d \ keys |-> d[x]]

\* config.max_retries of get_retry_config(operation), for an operation
\* without a type: RetryConfig()'s 3, 1 after more than 10 failures
get_retry_config(counts, k) ==
    IF k \in DOMAIN counts /\ counts[k].total > 10 THEN 1 ELSE 3

\* RetryState.should_retry (config.timeout is None)
should_retry(attempts, max_retries) == ~(attempts >= max_retries)

\* _should_apply_circuit_breaker, at time t
_should_apply_circuit_breaker(counts, k, t) ==
    /\ k \in DOMAIN counts
    /\ \/ counts[k].consecutive_failures >= 5
       \/ /\ counts[k].total >= 10
          /\ counts[k].last_attempt # Never
          /\ t - counts[k].last_attempt <= 300

\* _create_circuit_breaker: an existing record is left as it is
_create_circuit_breaker(breakers, counts, k, t) ==
    IF k \in DOMAIN breakers
    THEN breakers
    ELSE SetItem(breakers, k, [created_at |-> t, failure_count |-> counts[k].total,
                                reset_timeout |-> 60, status |-> "open"])

\* execute_with_retry up to the first await of the handler in retry_operation
execute_with_retry(k) ==
    LET counts == IF k \in DOMAIN retry_counts
                  THEN retry_counts
                  ELSE SetItem(retry_counts, k,
                               [total |-> 0, consecutive_failures |-> 0,
                                last_status |-> "none", last_attempt |-> Never])
    IN  /\ rh_pc[k] = "idle"
        /\ rh_calls < MaxExecutes
        /\ rh_calls' = rh_calls + 1
        /\ retry_counts' = counts
        /\ rh_max_retries' = [rh_max_retries EXCEPT ![k] = get_retry_config(counts, k)]
        /\ rh_attempts' = [rh_attempts EXCEPT ![k] = 0]
        /\ rh_pc' = [rh_pc EXCEPT ![k] = "handler"]
        /\ rh_invocations' = [rh_invocations EXCEPT ![k] = @ + 1]
        /\ rh_error' = [rh_error EXCEPT ![k] = "none"]
        /\ UNCHANGED <<circuit_breakers, rh_last>>
        /\ UNCHANGED <<now, queueVars, cbVars, delayVars, wsVars, gateVars>>

\* the handler returns: the success metrics.  When cleanup_old_data deleted
\* the key's counts meanwhile, the update raises KeyError, and so does the
\* except block.
RHHandlerReturns(k) ==
    /\ rh_pc[k] = "handler"
    /\ rh_pc' = [rh_pc EXCEPT ![k] = "idle"]
    /\ IF k \in DOMAIN retry_counts
       THEN /\ retry_counts' = [retry_counts EXCEPT ![k].consecutive_failures = 0,
                                                    ![k].last_status = "success",
                                                    ![k].last_attempt = now]
            /\ rh_last' = [rh_last EXCEPT ![k] = "success"]
       ELSE /\ rh_last' = [rh_last EXCEPT ![k] = "KeyError"]
            /\ UNCHANGED retry_counts
    /\ UNCHANGED <<circuit_breakers, rh_attempts, rh_max_retries, rh_calls, rh_invocations, rh_error>>
    /\ UNCHANGED <<now, queueVars, cbVars, delayVars, wsVars, gateVars>>

\* what the handler given to execute_with_retry does when awaited
RHOutcomes == {"return", "ValidationError", "Exception"}

\* the handler raises e: record_attempt; either retry_operation sleeps before the
\* next attempt, or it raises and execute_with_retry's except block updates
\* the failure metrics and creates the circuit-breaker record
RHHandlerRaises(k, e) ==
    LET attempts == rh_attempts[k] + 1
        counts == [retry_counts EXCEPT ![k].total = @ + 1,
                                       ![k].consecutive_failures = @ + 1,
                                       ![k].last_status = "failure",
                                       ![k].last_attempt = now]
    IN  /\ rh_pc[k] = "handler"
        /\ rh_attempts' = [rh_attempts EXCEPT ![k] = attempts]
        /\ rh_error' = [rh_error EXCEPT ![k] = e]
        /\ IF should_retry(attempts, rh_max_retries[k])
           THEN /\ rh_pc' = [rh_pc EXCEPT ![k] = "retry_sleep"]
                /\ UNCHANGED <<retry_counts, circuit_breakers, rh_last>>
           ELSE /\ rh_pc' = [rh_pc EXCEPT ![k] = "idle"]
                /\ IF k \in DOMAIN retry_counts
                   THEN /\ retry_counts' = counts
                        /\ rh_last' = [rh_last EXCEPT ![k] = "failure"]
                        /\ circuit_breakers' =
                               IF _should_apply_circuit_breaker(counts, k, now)
                               THEN _create_circuit_breaker(circuit_breakers, counts, k, now)
                               ELSE circuit_breakers
                   ELSE /\ rh_last' = [rh_last EXCEPT ![k] = "KeyError"]
                        /\ UNCHANGED <<retry_counts, circuit_breakers>>
        /\ UNCHANGED <<rh_max_retries, rh_calls, rh_invocations>>
        /\ UNCHANGED <<now, queueVars, cbVars, delayVars, wsVars, gateVars>>

\* retry_operation's asyncio.sleep(delay) is over: the handler is awaited again
RHRetryWake(k) ==
    /\ rh_pc[k] = "retry_sleep"
    /\ rh_pc' = [rh_pc EXCEPT ![k] = "handler"]
    /\ rh_invocations' = [rh_invocations EXCEPT ![k] = @ + 1]
    /\ UNCHANGED <<retry_counts, circuit_breakers, rh_attempts, rh_max_retries, rh_calls, rh_last, rh_error>>
    /\ UNCHANGED <<now, queueVars, cbVars, delayVars, wsVars, gateVars>>

\* check_circuit_breaker(operation_key), called by a user of the RetryHandler:
\* an open record whose reset_timeout has elapsed becomes half-open.  Its other
\* outcomes (no record: return; open and not elapsed: RESOURCE_BUSY
\* OperationError; not open: return) change nothing.
check_circuit_breaker(k) ==
    /\ k \in DOMAIN circuit_breakers
    /\ circuit_breakers[k].status = "open"
    /\ now - circuit_breakers[k].created_at >= circuit_breakers[k].reset_timeout
    /\ circuit_breakers' = [circuit_breakers EXCEPT ![k].status = "half-open"]
    /\ UNCHANGED <<retry_counts, rh_pc, rh_attempts, rh_max_retries, rh_calls, rh_invocations, rh_last, rh_error>>
    /\ UNCHANGED <<now, queueVars, cbVars, delayVars, wsVars, gateVars>>

\* one pass of cleanup_old_data that finds something to delete
StaleCounts ==
    {k \in DOMAIN retry_counts :
        retry_counts[k].last_attempt # Never /\ now - retry_counts[k].last_attempt > 3600}
StaleBreakers ==
    {k \in DOMAIN circuit_breakers : now - circuit_breakers[k].created_at > 1800}

cleanup_old_data ==
    /\ StaleCounts \cup StaleBreakers # {}
    /\ retry_counts' = DelItems(retry_counts, StaleCounts)
    /\ circuit_breakers' = DelItems(circuit_breakers, StaleBreakers)
    /\ UNCHANGED <<rh_pc, rh_attempts, rh_max_retries, rh_calls, rh_invocations, rh_last, rh_error>>
    /\ UNCHANGED <<now, queueVars, cbVars, delayVars, wsVars, gateVars>>

NextRH ==
    \/ \E k \in Keys : execute_with_retry(k)
    \/ \E k \in Keys : RHHandlerReturns(k)
    \/ \E k \in Keys, e \in RHOutcomes \ {"return"} : RHHandlerRaises(k, e)
    \/ \E k \in Keys : RHRetryWake(k)
    \/ \E k \in Keys : check_circuit_breaker(k)
    \/ cleanup_old_data
    \/ \E d \in {ShortTick, LongTick} : Tick(d)

\* ------------------------------------------------------------ retry delays
Strategies == {"IMMEDIATE", "LINEAR_BACKOFF", "EXPONENTIAL_BACKOFF", "NO_RETRY"}

\* RetryConfig(strategy, base_delay, jitter), times in milliseconds
RetryConfig(strategy, base_delay, jitter) ==
    [strategy |-> strategy, base_delay |-> base_delay,
     max_delay |-> max_delay * 1000, jitter |-> jitter]

\* base delays of 1, 2, 5 and 7 seconds
BaseDelays == {1000, 2000, 5000, 7000}

\* random.uniform(-0.1, 0.1), in thousandths
Jitters == {-100, -50, 0, 50, 100}

Min(a, b) == IF a <= b THEN a ELSE b

\* calculate_delay(state, config) when random.uniform returns jitter / 1000
calculate_delay(attempts, cfg, jitter) ==
    LET raw == CASE cfg.strategy = "IMMEDIATE" -> 0
                 [] cfg.strategy = "LINEAR_BACKOFF" -> cfg.base_delay * attempts
                 [] cfg.strategy = "EXPONENTIAL_BACKOFF" -> cfg.base_delay * (2 ^ (attempts - 1))
                 [] OTHER -> cfg.base_delay
        delay == Min(raw, cfg.max_delay)
    IN  IF cfg.jitter THEN delay + (jitter * delay) \div 1000 ELSE delay

InitRetryState ==
    /\ rs_attempts = 0
    /\ rs_delay = Never
    /\ rs_previous = Never
    /\ mr_count = 0
    /\ mr_delay = Never
    /\ mr_previous = Never

\* retry_operation's except block: record_attempt, calculate_delay
NextAttempt(jitter) ==
    /\ rs_attempts < MaxAttempts
    /\ rs_attempts' = rs_attempts + 1
    /\ rs_previous' = rs_delay
    /\ rs_delay' = calculate_delay(rs_attempts + 1, config, jitter)
    /\ UNCHANGED <<config, mr_count, mr_delay, mr_previous>>
    /\ UNCHANGED <<now, queueVars, cbVars, rhVars, wsVars, gateVars>>

\* _retry_operation: retry_count += 1, _calculate_retry_delay
NextRetry ==
    /\ mr_count < MaxAttempts
    /\ mr_count' = mr_count + 1
    /\ mr_previous' = mr_delay
    /\ mr_delay' = _calculate_retry_delay(config.strategy, mr_count + 1)
    /\ UNCHANGED <<config, rs_attempts, rs_delay, rs_previous>>
    /\ UNCHANGED <<now, queueVars, cbVars, rhVars, wsVars, gateVars>>

NextDelay ==
    \/ \E jitter \in Jitters : NextAttempt(jitter)
    \/ NextRetry

\* ----------------------------------------------- OperationsWebsocketManager
Clients == 1..NumClients
Broadcasters == 1..NumBroadcasters
Projects == {"P", "Q"}
Agents == {"A", "B"}

\* subscription strings, split at ":"
All == <<"all">>
System == <<"system">>
Project(p) == <<"project", p>>
Agent(a) == <<"agent", a>>
\* subscription.startswith(prefix + ":")
startswith(subscription, prefix) == Len(subscription) = 2 /\ subscription[1] = prefix

\* subscriptions = None
NoSubscriptions == {<<"None">>}
\* the subscriptions argument of connect
SubscriptionSets ==
    {NoSubscriptions, {All}, {Project("P")}, {Project("Q")}, {Agent("A"), System}}
\* the subscriptions of a "subscribe" message
MessageSubscriptions == {{Project("Q")}}

\* the manager as one value, so that the calls a coroutine makes in a row can
\* be composed
W ==
    [active_connections |-> active_connections,
     project_connections |-> project_connections,
     agent_connections |-> agent_connections,
     client_subscriptions |-> client_subscriptions,
     client_heartbeats |-> client_heartbeats,
     dropped |-> dropped]

CommitW(w) ==
    /\ active_connections' = w.active_connections
    /\ project_connections' = w.project_connections
    /\ agent_connections' = w.agent_connections
    /\ client_subscriptions' = w.client_subscriptions
    /\ client_heartbeats' = w.client_heartbeats
    /\ dropped' = w.dropped

\* the connection set a subscription names: project_connections[id],
\* agent_connections[id] or active_connections[subscription]
Names(subscription, kind, key) ==
    CASE kind = "project" -> startswith(subscription, "project") /\ subscription[2] = key
      [] kind = "agent" -> ~startswith(subscription, "project") /\ startswith(subscription, "agent")
                               /\ subscription[2] = key
      [] OTHER -> ~startswith(subscription, "project") /\ ~startswith(subscription, "agent")
                      /\ subscription = <<key>>

\* connect's `for subscription in self.client_subscriptions[websocket]`: add
\* the websocket to the set each subscription names (a missing set is created)
Register(w, websocket, subs) ==
    [w EXCEPT !.client_subscriptions = SetItem(@, websocket, subs),
              !.client_heartbeats = @ \cup {websocket},
              !.project_connections =
                  [p \in Projects |->
                      IF \E sub \in subs : Names(sub, "project", p)
                      THEN @[p] \cup {websocket} ELSE @[p]],
              !.agent_connections =
                  [a \in Agents |->
                      IF \E sub \in subs : Names(sub, "agent", a)
                      THEN @[a] \cup {websocket} ELSE @[a]],
              !.active_connections =
                  [k \in DOMAIN @ |->
                      IF \E sub \in subs : Names(sub, "active", k)
                      THEN @[k] \cup {websocket} ELSE @[k]]]

\* variant: disconnect does nothing
disconnect_Nothing(w, websocket) == w

\* disconnect(websocket): pop client_subscriptions and client_heartbeats, then
\* discard the websocket from the set each popped subscription names
disconnect(w, websocket) ==
    LET subscriptions == IF websocket \in DOMAIN w.client_subscriptions
                         THEN w.client_subscriptions[websocket] ELSE {}
    IN  [w EXCEPT !.client_subscriptions = DelItems(@, {websocket}),
                  !.client_heartbeats = @ \ {websocket},
                  !.project_connections =
                      [p \in Projects |->
                          IF \E sub \in subscriptions : Names(sub, "project", p)
                          THEN @[p] \ {websocket} ELSE @[p]],
                  !.agent_connections =
                      [a \in Agents |->
                          IF \E sub \in subscriptions : Names(sub, "agent", a)
                          THEN @[a] \ {websocket} ELSE @[a]],
                  !.active_connections =
                      [k \in DOMAIN @ |->
                          IF \E sub \in subscriptions : Names(sub, "active", k)
                          THEN @[k] \ {websocket} ELSE @[k]],
                  !.dropped = @ \cup {websocket}]

\* _send_initial_state: the active operations that match the subscriptions
InitialOps(subscriptions) ==
    {o \in active_operations :
        \/ All \in subscriptions
        \/ Project(project_id[o]) \in subscriptions
        \/ Agent(agent_id[o]) \in subscriptions}

\* the manager after __init__, no websocket connected
InitWS ==
    /\ active_connections = [k \in {"all", "system"} |-> {}]
    /\ project_connections = [p \in Projects |-> {}]
    /\ agent_connections = [a \in Agents |-> {}]
    /\ client_subscriptions = <<>>
    /\ client_heartbeats = {}
    /\ ws_pc = [websocket \in Clients |-> "new"]
    /\ inbox = [websocket \in Clients |-> <<>>]
    /\ connected_with = [websocket \in Clients |-> {}]
    /\ dropped = {}
    /\ log = <<>>

\* handle_websocket -> connect(websocket, client_id, subscriptions), the
\* websockets numbered in the order in which they are accepted: accept,
\* client_subscriptions[websocket] = subscriptions or {"all"}, the connection
\* sets, then _send_initial_state(websocket, subscriptions) up to its first
\* send_json.  With subscriptions = None, `"system" in subscriptions` raises
\* TypeError, which _send_initial_state answers with disconnect(websocket).
connect(websocket, subscriptions) ==
    LET subs == IF subscriptions = NoSubscriptions \/ subscriptions = {}
                THEN {All} ELSE subscriptions
        registered == Register(W, websocket, subs)
    IN  /\ ws_pc[websocket] = "new"
        /\ \A earlier \in Clients : earlier < websocket => ws_pc[earlier] # "new"
        /\ connected_with' = [connected_with EXCEPT ![websocket] = subscriptions]
        /\ IF subscriptions = NoSubscriptions
           THEN /\ CommitW(disconnect(registered, websocket))
                /\ ws_pc' = [ws_pc EXCEPT ![websocket] = "open"]
           ELSE /\ CommitW(registered)
                /\ ws_pc' = [ws_pc EXCEPT ![websocket] =
                                IF InitialOps(subscriptions) # {} THEN "initial_state"
                                ELSE IF System \in subscriptions THEN "queue_status"
                                ELSE "open"]
        /\ UNCHANGED <<project_id, agent_id, bc, inbox, log>>
        /\ UNCHANGED <<queueVars, now, cbVars, rhVars, delayVars, gateVars>>

\* websocket.accept() raises: connect calls disconnect and raises again,
\* handle_websocket calls disconnect and ends
AcceptRaises(websocket) ==
    /\ ws_pc[websocket] = "new"
    /\ \A earlier \in Clients : earlier < websocket => ws_pc[earlier] # "new"
    /\ ws_pc' = [ws_pc EXCEPT ![websocket] = "closed"]
    /\ CommitW(disconnect(W, websocket))
    /\ UNCHANGED <<project_id, agent_id, bc, inbox, connected_with, log>>
    /\ UNCHANGED <<queueVars, now, cbVars, rhVars, delayVars, gateVars>>

\* a send_json of _send_initial_state returns
InitialSendReturns(websocket) ==
    /\ ws_pc[websocket] \in {"initial_state", "queue_status"}
    /\ inbox' = [inbox EXCEPT ![websocket] =
                    Append(@, [type |-> ws_pc[websocket], n |-> 0, operation |-> None])]
    /\ ws_pc' = [ws_pc EXCEPT ![websocket] =
                    IF @ = "initial_state" /\ System \in connected_with[websocket]
                    THEN "queue_status" ELSE "open"]
    /\ UNCHANGED <<project_id, agent_id, active_connections, project_connections,
                   agent_connections, client_subscriptions, client_heartbeats, bc,
                   connected_with, dropped, log>>
    /\ UNCHANGED <<queueVars, now, cbVars, rhVars, delayVars, gateVars>>

\* a send_json of _send_initial_state raises: disconnect(websocket); connect
\* returns and handle_websocket goes on to receive
InitialSendRaises(websocket) ==
    /\ ws_pc[websocket] \in {"initial_state", "queue_status"}
    /\ CommitW(disconnect(W, websocket))
    /\ ws_pc' = [ws_pc EXCEPT ![websocket] = "open"]
    /\ UNCHANGED <<project_id, agent_id, bc, inbox, connected_with, log>>
    /\ UNCHANGED <<queueVars, now, cbVars, rhVars, delayVars, gateVars>>

\* handle_websocket receives {"type": "subscribe", "subscriptions": [...]}
subscribe(websocket, new_subs) ==
    /\ ws_pc[websocket] = "open"
    /\ client_subscriptions' = SetItem(client_subscriptions, websocket, new_subs)
    /\ UNCHANGED <<project_id, agent_id, active_connections, project_connections,
                   agent_connections, client_heartbeats, ws_pc, bc,
                   inbox, connected_with, dropped, log>>
    /\ UNCHANGED <<queueVars, now, cbVars, rhVars, delayVars, gateVars>>

\* handle_websocket receives {"type": "unsubscribe"}:
\* client_subscriptions[websocket].clear() (KeyError when it has no entry,
\* which handle_websocket answers with an error message)
unsubscribe(websocket) ==
    /\ ws_pc[websocket] = "open"
    /\ websocket \in DOMAIN client_subscriptions
    /\ client_subscriptions' = SetItem(client_subscriptions, websocket, {})
    /\ UNCHANGED <<project_id, agent_id, active_connections, project_connections,
                   agent_connections, client_heartbeats, ws_pc, bc,
                   inbox, connected_with, dropped, log>>
    /\ UNCHANGED <<queueVars, now, cbVars, rhVars, delayVars, gateVars>>

\* receive_json raises WebSocketDisconnect: disconnect(websocket), the handler ends
WebSocketDisconnect(websocket) ==
    /\ ws_pc[websocket] = "open"
    /\ CommitW(disconnect(W, websocket))
    /\ ws_pc' = [ws_pc EXCEPT ![websocket] = "closed"]
    /\ UNCHANGED <<project_id, agent_id, bc, inbox, connected_with, log>>
    /\ UNCHANGED <<queueVars, now, cbVars, rhVars, delayVars, gateVars>>

\* _monitor_client_connection finds the heartbeat older than HEARTBEAT_TIMEOUT:
\* disconnect(websocket); the handler stays in its receive loop
_monitor_client_connection(websocket) ==
    /\ websocket \in client_heartbeats
    /\ ws_pc[websocket] # "new"
    /\ CommitW(disconnect(W, websocket))
    /\ UNCHANGED <<project_id, agent_id, ws_pc, bc, inbox, connected_with, log>>
    /\ UNCHANGED <<queueVars, now, cbVars, rhVars, delayVars, gateVars>>

IdleBroadcast ==
    [pc |-> "idle", n |-> 0, operation |-> None, targets |-> {}, todo |-> {}, websocket |-> None]

\* variant: the connections of every project are targets
Targets_AnyProject(w, operation) ==
    w.active_connections["all"]
        \cup UNION {w.project_connections[p] : p \in Projects}
        \cup w.agent_connections[agent_id[operation]]

\* broadcast_operation_update: the target connections
Targets(w, operation) ==
    w.active_connections["all"]
        \cup w.project_connections[project_id[operation]]
        \cup w.agent_connections[agent_id[operation]]

\* `for websocket in targets`: the next websocket (a set is iterated in an
\* order the program does not choose), or the end of the call
Iterate(b, n, operation, targets, todo) ==
    IF todo = {}
    THEN bc' = [bc EXCEPT ![b] = IdleBroadcast]
    ELSE \E websocket \in todo :
             bc' = [bc EXCEPT ![b] =
                       [pc |-> "send_json", n |-> n, operation |-> operation,
                        targets |-> targets, todo |-> todo \ {websocket},
                        websocket |-> websocket]]

\* broadcast_operation_update(operation) up to its first send_json
broadcast_operation_update(b, operation) ==
    /\ bc[b].pc = "idle"
    /\ Len(log) < MaxBroadcasts
    /\ log' = Append(log, [operation |-> operation, status |-> status[operation]])
    /\ Iterate(b, Len(log) + 1, operation, Targets(W, operation), Targets(W, operation))
    /\ UNCHANGED <<project_id, agent_id, active_connections, project_connections,
                   agent_connections, client_subscriptions, client_heartbeats, ws_pc,
                   inbox, connected_with, dropped>>
    /\ UNCHANGED <<queueVars, now, cbVars, rhVars, delayVars, gateVars>>

\* websocket.send_json(message) returns: the loop goes on
SendReturns(b) ==
    /\ bc[b].pc = "send_json"
    /\ ws_pc[bc[b].websocket] # "closed"
    /\ inbox' = [inbox EXCEPT ![bc[b].websocket] =
                    Append(@, [type |-> "update", n |-> bc[b].n, operation |-> bc[b].operation])]
    /\ Iterate(b, bc[b].n, bc[b].operation, bc[b].targets, bc[b].todo)
    /\ UNCHANGED <<project_id, agent_id, active_connections, project_connections,
                   agent_connections, client_subscriptions, client_heartbeats, ws_pc,
                   connected_with, dropped, log>>
    /\ UNCHANGED <<queueVars, now, cbVars, rhVars, delayVars, gateVars>>

\* websocket.send_json(message) raises: disconnect(websocket), the loop goes on
SendRaises(b) ==
    /\ bc[b].pc = "send_json"
    /\ CommitW(disconnect(W, bc[b].websocket))
    /\ Iterate(b, bc[b].n, bc[b].operation, bc[b].targets, bc[b].todo)
    /\ UNCHANGED <<project_id, agent_id, ws_pc, inbox, connected_with, log>>
    /\ UNCHANGED <<queueVars, now, cbVars, rhVars, delayVars, gateVars>>

NextWS ==
    \/ \E websocket \in Clients, subscriptions \in SubscriptionSets : connect(websocket, subscriptions)
    \/ \E websocket \in Clients : AcceptRaises(websocket)
    \/ \E websocket \in Clients : InitialSendReturns(websocket)
    \/ \E websocket \in Clients : InitialSendRaises(websocket)
    \/ \E websocket \in Clients, new_subs \in MessageSubscriptions : subscribe(websocket, new_subs)
    \/ \E websocket \in Clients : unsubscribe(websocket)
    \/ \E websocket \in Clients : WebSocketDisconnect(websocket)
    \/ \E websocket \in Clients : _monitor_client_connection(websocket)
    \/ \E b \in Broadcasters, operation \in Ops : broadcast_operation_update(b, operation)
    \/ \E b \in Broadcasters : SendReturns(b)
    \/ \E b \in Broadcasters : SendRaises(b)

\* ------------------------------------------- start_processing's limit
\* start_processing and _process_operation reduced to what they do to
\* len(active_operations), for more loops than max_concurrent.  What a queue
\* holds is left open: at each queue of its pass a loop finds an operation to
\* process (peek returns one that is not active) or does not.
GateLoops == 1..NumGateLoops
GateQueues == 1..NumGateQueues

\* variant: no limit
GateOpen_Always(n) == TRUE

\* `if len(self.active_operations) < self.max_concurrent`
GateOpen(n) == n < max_concurrent

InitGate ==
    /\ gate_active = 0
    /\ gate_pc = [l \in GateLoops |-> "sleep"]
    /\ gate_it = [l \in GateLoops |-> 0]

\* `for queue_name, queue in self.queues.items()` from queue `from` on, with n
\* operations active: the loop processes the operation of a queue j
\* (active_operations[id] = operation, the handler is awaited), or finds
\* nothing to process up to the end of the pass and sleeps
GateFor(l, from, n) ==
    \/ \E j \in from..NumGateQueues :
           /\ gate_active' = n + 1
           /\ gate_pc' = [gate_pc EXCEPT ![l] = "handler"]
           /\ gate_it' = [gate_it EXCEPT ![l] = j]
    \/ /\ gate_active' = n
       /\ gate_pc' = [gate_pc EXCEPT ![l] = "sleep"]
       /\ gate_it' = [gate_it EXCEPT ![l] = 0]

\* start_processing: a pass begins, the limit is tested once
GatePass(l) ==
    /\ gate_pc[l] = "sleep"
    /\ GateOpen(gate_active)
    /\ GateFor(l, 1, gate_active)
    /\ UNCHANGED <<queueVars, now, cbVars, rhVars, delayVars, wsVars>>

\* the handler returns or raises, or the retry delay is over: the finally block
\* pops the operation from active_operations and the for loop goes on
GateDone(l) ==
    /\ gate_pc[l] = "handler"
    /\ GateFor(l, gate_it[l] + 1, gate_active - 1)
    /\ UNCHANGED <<queueVars, now, cbVars, rhVars, delayVars, wsVars>>

NextGate ==
    \/ \E l \in GateLoops : GatePass(l)
    \/ \E l \in GateLoops : GateDone(l)

\* ---------------------------------------------------------- specifications
InitOthers ==
    /\ InitQueue /\ now = 0 /\ InitCB /\ InitRH /\ InitWS /\ InitGate
    /\ bc = [b \in Broadcasters |-> IdleBroadcast]

OneProject ==
    /\ project_id = [o \in Ops |-> "P"]
    /\ agent_id = [o \in Ops |-> "A"]

Init ==
    /\ InitOthers /\ OneProject
    /\ config = RetryConfig("EXPONENTIAL_BACKOFF", 1000, TRUE) /\ InitRetryState

\* any RetryConfig
InitDelay ==
    /\ InitOthers /\ OneProject
    /\ config \in {RetryConfig(strategy, base_delay, jitter) :
                       strategy \in Strategies, base_delay \in BaseDelays, jitter \in BOOLEAN}
    /\ InitRetryState

\* operations of any project and agent
InitProjects ==
    /\ InitOthers
    /\ priority = [o \in Ops |-> "normal"]
    /\ project_id \in {f \in [Ops -> Projects] : f[1] = "P"}
    /\ agent_id = [o \in Ops |-> IF o = 1 THEN "A" ELSE "B"]
    /\ config = RetryConfig("EXPONENTIAL_BACKOFF", 1000, TRUE) /\ InitRetryState

\* the queue manager with its dispatch loops
Spec == Init /\ [][Next]_vars
SpecCancel == Init /\ [][NextCancel]_vars
\* a step of dispatch loop l
LoopStep(l) ==
    \/ start_processing(l)
    \/ HandlerReturn(l)
    \/ \E outcome \in Outcomes : HandlerRaise(l, outcome)
    \/ RetryWake(l)
\* callers that submit every operation once
NextOnce ==
    \/ \E o \in Ops, q \in QueueNames : submits[o] = 0 /\ enqueue_operation(o, q)
    \/ \E o \in Ops : register_handler(capability[o])
    \/ \E l \in Loops : LoopStep(l)
\* loop l has a step that changes something: its handler is awaited, its retry
\* delay runs, it has not started, or the pass after its sleep finds work
CanStep(l) ==
    \/ pc[l] \in {"init", "handler", "retry_sleep"}
    \/ /\ pc[l] = "sleep"
       /\ Cardinality(active_operations) < max_concurrent
       /\ ForLoop(M, 1, Len(qorder)) # [m |-> M, pc |-> "sleep", cur |-> cur[l], it |-> it[l]]
\* the event loop schedules every start_processing task that can run, every
\* handler returns or raises, every sleep ends: WF_vars(LoopStep(l)), with
\* ENABLED <<LoopStep(l)>>_vars written out as CanStep(l)
Scheduled(l) == []<>(~CanStep(l)) \/ []<><<LoopStep(l)>>_vars
SpecFair == Init /\ [][NextOnce]_vars /\ \A l \in Loops : Scheduled(l)
\* a CircuitBreaker and its callers
SpecCB == Init /\ [][NextCB]_vars
\* the RetryHandler and its callers
SpecRH == Init /\ [][NextRH]_vars
\* the delays of the successive retries of one call
SpecDelay == InitDelay /\ [][NextDelay]_vars
\* the OperationsWebsocketManager, its clients and the callers of its broadcast
SpecWS == InitProjects /\ [][NextWS]_vars
\* more start_processing loops than max_concurrent
InitNormal == Init /\ priority = [o \in Ops |-> "normal"]
SpecGate == InitNormal /\ [][NextGate]_vars

\* ------------------------------------------------------------------ claims
\* the popped entry of queue q, when this step pops one and pushes none:
\* position k of the arrival order, the oldest entry of its operation
PopsAt(q, k) ==
    /\ k \in 1..Len(arrival[q])
    /\ arrival'[q] = RemoveAt(arrival[q], k)
    /\ k = FirstIndex(arrival[q], arrival[q][k])

\* C1: operations of the same priority leave a queue in the order in which
\* they were enqueued (first submissions and retry re-submissions alike): a
\* pop never takes an entry while an entry of the same priority that was
\* enqueued before it is still waiting in that queue.
C1_FifoWithinPriority ==
    [][\A q \in QueueNames : \A k \in 1..Len(arrival[q]) :
          PopsAt(q, k) =>
              \A j \in 1..(k - 1) : priority[arrival[q][j]] # priority[arrival[q][k]]]_vars

\* C2: an operation that was given a terminal status (COMPLETED or FAILED) is
\* never RUNNING again.  Stated for an operation its caller submitted once,
\* so that only the manager itself can bring it back.
C2_TerminalNeverRunsAgain ==
    \A o \in Ops : (terminated[o] /\ submits[o] = 1) => status[o] # "running"

\* the operations a dispatch loop is in the middle of processing
Processing(l) == IF pc[l] \in {"handler", "retry_sleep"} THEN {cur[l].op} ELSE {}

C5_CircuitBreakerTrip ==
    [][/\ (cb_calls' # cb_calls /\ cb_consecutive >= failure_threshold) =>
              IF now - last_failure_time < reset_timeout
              THEN cb_holder' = None /\ cb_last' = "RESOURCE_BUSY" /\ state' = "open"
              ELSE cb_holder' # None /\ cb_last' = "invoked" /\ state' = "half-open"
       /\ (cb_holder # None /\ cb_holder' = None /\ state = "half-open") =>
              IF cb_last' = "return"
              THEN state' = "closed" /\ failures' = 0
              ELSE state' = "open"]_vars

\* the breaker tripped, rejected a call, and its reset call is in flight
C5_Witness ==
    /\ cb_consecutive >= failure_threshold
    /\ cb_calls >= failure_threshold + 2
    /\ state = "half-open"
    /\ cb_holder # None

\* C6: while the circuit-breaker record of a key is open, execute_with_retry
\* under that key does not invoke the handler.
C6_OpenBreakerBlocks ==
    [][\A k \in Keys :
          (k \in DOMAIN circuit_breakers /\ circuit_breakers[k].status = "open") =>
              rh_invocations'[k] = rh_invocations[k]]_vars

\* C7: a half-open circuit-breaker record does not stay half-open across a
\* completed execute_with_retry of its key: after a success the record is
\* closed (or gone), after a failure it is open.
C7_HalfOpenResolves ==
    [][\A k \in Keys :
          (/\ k \in DOMAIN circuit_breakers
           /\ circuit_breakers[k].status = "half-open"
           /\ rh_pc[k] # "idle" /\ rh_pc'[k] = "idle") =>
              IF rh_last'[k] = "success"
              THEN k \in DOMAIN circuit_breakers' => circuit_breakers'[k].status = "closed"
              ELSE k \in DOMAIN circuit_breakers' /\ circuit_breakers'[k].status = "open"]_vars

\* an operation heads a queue and is not active: a pass of a loop would take it
Dispatchable ==
    \E i \in 1..Len(qorder) : MayProcess(peek(queues[qorder[i]]), active_operations)

\* C8: while an operation waits for its retry delay, dispatching goes on:
\* when another operation can be dispatched, a started loop is there to make
\* a pass over the queues.
C8_RetryDelayDoesNotStall ==
    \A l \in Loops :
        (pc[l] = "retry_sleep" /\ Dispatchable) => \E l2 \in Loops : pc[l2] = "sleep"

\* C9: cancelling a queued operation takes it out of its queue and leaves it
\* CANCELLED.
C9_CancelQueued ==
    \A o \in Ops : cancelRequested = o =>
        /\ status[o] = "cancelled"
        /\ \A q \in QueueNames : ~InHeap(queues[q], o)

\* the number of entries of operation o in the queues
EntriesOf(arr, o) ==
    Sum([q \in QueueNames |-> Cardinality({i \in 1..Len(arr[q]) : arr[q][i] = o})],
        QueueNames)

C11_SuccessResultProgress ==
    \A o \in Ops :
        (status[o] = "completed" /\ retry_count[o] = 0 /\ invocations[o] = 1) =>
            /\ result[o] = ReturnValue(o)
            /\ progress[o] = 100

\* C12: a call that failed with an error whose retry strategy is NO_RETRY (a
\* ValidationError) is not attempted again by retry_operation under
\* execute_with_retry: the call ends, it does not go to sleep for a retry.
C12_NoRetryNeverRetried ==
    [][\A k \in Keys :
          (/\ rh_pc[k] = "handler" /\ rh_pc'[k] # "handler"
           /\ Raised(rh_error'[k]).class = "OperationError"
           /\ Raised(rh_error'[k]).retry_strategy = "NO_RETRY") =>
              rh_pc'[k] = "idle"]_vars

\* C13: the delay slept before a retry never exceeds max_delay, for every
\* strategy and attempt number, jitter included, in calculate_delay and in
\* _calculate_retry_delay.
C13_DelayAtMostMaxDelay ==
    /\ rs_delay <= config.max_delay
    /\ mr_delay <= max_delay

\* the delay of attempt n before the cap and the jitter
RawExponential(base_delay, n) == base_delay * (2 ^ (n - 1))

\* C14: with EXPONENTIAL_BACKOFF the delay of attempt n + 1 is not smaller
\* than the delay of attempt n, as long as the cap max_delay was not yet
\* reached at attempt n, whatever the jitter.
C14_ExponentialMonotonic ==
    config.strategy = "EXPONENTIAL_BACKOFF" =>
        /\ (rs_attempts >= 2 /\ RawExponential(config.base_delay, rs_attempts - 1) < config.max_delay)
               => rs_delay >= rs_previous
        /\ (mr_count >= 2 /\ RawExponential(1, mr_count - 1) < max_delay)
               => mr_delay >= mr_previous

\* C15: an operation left FAILED because its retries are exhausted has
\* metadata.final_error recorded, with the retry count.
C15_FinalErrorRecorded ==
    \A o \in Ops :
        (status[o] = "failed" /\ retry_count[o] > 0 /\ o \notin active_operations) =>
            /\ "final_error" \in DOMAIN metadata(o)
            /\ metadata(o).final_error.retry_count = retry_count[o]

Rank(p) == CASE p = "high" -> 3 [] p = "normal" -> 2 [] p = "low" -> 1

\* this step ends the retry delay of loop l: it pushes cur[l].op on "default"
\* before the loop goes on dispatching
Woken(l) == pc[l] = "retry_sleep" /\ pc'[l] # "retry_sleep"

\* the entries waiting in queue q when this step dispatches from it
WaitingAtPop(q) ==
    IF q = "default" /\ \E l \in Loops : Woken(l)
    THEN Append(arrival[q], cur[CHOOSE l \in Loops : Woken(l)].op)
    ELSE arrival[q]

C18_NoDuplicateEntries ==
    \A q \in QueueNames : \A i, j \in 1..Len(queues[q]) :
        i # j => queues[q][i] # queues[q][j]

\* C19: every status transition the queue manager makes on an operation (to
\* RUNNING, COMPLETED, FAILED, back to QUEUED for a retry) is published: the
\* step that changes an operation's status begins a broadcast of that
\* operation with its new status.
C19_EveryTransitionPublished ==
    [][\A o \in Ops :
          status'[o] # status[o] =>
              \E n \in (Len(log) + 1)..Len(log') :
                  log'[n].operation = o /\ log'[n].status = status'[o]]_vars

\* the websocket was connected with the subscription set {"project:<p>"}
OnlyProject(websocket, p) ==
    ws_pc[websocket] # "new" /\ connected_with[websocket] = {Project(p)}

\* the message of broadcast n is among the messages received
UpdateIn(received, n) ==
    \E i \in 1..Len(received) : received[i].type = "update" /\ received[i].n = n

\* the websocket was sent the message of broadcast n
HasUpdate(websocket, n) == UpdateIn(inbox[websocket], n)

\* C20: a client connected with the subscription set {"project:P"} receives the
\* broadcast events of the operations of project P, and a client connected
\* only with "project:Q" receives none of them.  A broadcast that begins takes
\* as targets every websocket connected with {"project:P"} that disconnect was
\* not called for; every target is sent the message in its turn (or is
\* disconnected, when the send fails); and no websocket connected with
\* {"project:Q"} is ever sent an update of an operation of another project.
C20_ProjectScopedDelivery ==
    [][/\ \A websocket \in Clients, q \in Projects :
              OnlyProject(websocket, q)' =>
                  \A i \in 1..Len(inbox'[websocket]) :
                      inbox'[websocket][i].type = "update" =>
                          project_id[inbox'[websocket][i].operation] = q
       /\ Len(log') > Len(log) =>
              LET operation == log'[Len(log')].operation
                  targets == UNION {bc'[b].targets :
                                       b \in {x \in Broadcasters : /\ bc'[x].pc = "send_json"
                                                                    /\ bc'[x].n = Len(log')}}
              IN  \A websocket \in Clients :
                      (OnlyProject(websocket, project_id[operation]) /\ websocket \notin dropped)
                          => websocket \in targets
       /\ \A b \in Broadcasters :
              bc[b].pc = "send_json" =>
                  /\ \A websocket \in bc[b].targets \ (bc[b].todo \cup {bc[b].websocket}) :
                         HasUpdate(websocket, bc[b].n) \/ websocket \in dropped
                  /\ bc'[b] # bc[b] =>
                         /\ UpdateIn(inbox'[bc[b].websocket], bc[b].n) \/ bc[b].websocket \in dropped'
                         /\ IF bc'[b].pc = "send_json"
                            THEN /\ bc'[b].n = bc[b].n
                                 /\ bc'[b].targets = bc[b].targets
                                 /\ bc'[b].websocket \in bc[b].todo
                                 /\ bc'[b].todo = bc[b].todo \ {bc'[b].websocket}
                            ELSE bc[b].todo = {}]_vars

\* both operations are of project P and both broadcasts are over: the client
\* connected with {"project:P"} was sent both, the one connected with
\* {"project:Q"} none
C20_Witness ==
    /\ project_id = [o \in Ops |-> "P"]
    /\ OnlyProject(1, "P") /\ OnlyProject(2, "Q")
    /\ dropped = {}
    /\ Len(log) = 2 /\ log[1].operation = 1 /\ log[2].operation = 2
    /\ \A b \in Broadcasters : bc[b].pc = "idle"
    /\ HasUpdate(1, 1) /\ HasUpdate(1, 2)
    /\ inbox[2] = <<>>

\* the message broadcast n sends
Update(n, operation) == [type |-> "update", n |-> n, operation |-> operation]

HasFailed(f) == status[f] = "failed" \/ retry_count[f] > 0

C23_RetryNotMarkedFailed ==
    [][\A o \in Ops :
          (status[o] = "running" /\ status'[o] = "retrying") =>
              terminated'[o] = terminated[o]]_vars

\* the targets of the broadcast this step begins
BegunTargets ==
    UNION {bc'[b].targets :
              b \in {x \in Broadcasters : bc'[x].pc = "send_json" /\ bc'[x].n = Len(log')}}

\* the connected clients whose current scope set matches the operation
InScope(operation) ==
    {websocket \in DOMAIN client_subscriptions :
        \/ All \in client_subscriptions[websocket]
        \/ Project(project_id[operation]) \in client_subscriptions[websocket]
        \/ Agent(agent_id[operation]) \in client_subscriptions[websocket]}

\* C24: broadcast_operation_update delivers an operation's event to exactly
\* the connected clients whose current scope set (client_subscriptions, as
\* last changed by a "subscribe" or "unsubscribe" message) contains "all",
\* "project:<operation.project_id>" or "agent:<operation.agent_id>": these
\* are the targets of every broadcast that begins.
C24_TargetsAreCurrentScopes ==
    [][Len(log') > Len(log) => BegunTargets = InScope(log'[Len(log')].operation)]_vars

C26_OpensOnConsecutiveFailures ==
    [][/\ (state = "closed" /\ state' = "open") => cb_consecutive' >= failure_threshold
       /\ (cb_holder # None /\ cb_holder' = None /\ cb_last' = "return") => failures' = 0]_vars

\* C27: max_retries means the same in both retry paths: as the queue manager's
\* _retry_operation does (C4), retry_operation gives up on work that fails on
\* every attempt only after max_retries retries, max_retries + 1 invocations.
C27_SameRetryCount ==
    [][\A k \in Keys :
          (rh_pc[k] = "handler" /\ rh_pc'[k] = "idle" /\ rh_last'[k] # "success") =>
              rh_attempts'[k] = rh_max_retries[k] + 1]_vars

\* C28: a client that connects through handle_websocket without subscriptions
\* is registered under "all" when connect returns, and every broadcast that
\* begins sends to all the websockets registered under "all".
C28_NoSubscriptionsMeansAll ==
    [][/\ \A websocket \in Clients :
             (/\ ws_pc[websocket] = "new" /\ ws_pc'[websocket] = "open"
              /\ connected_with'[websocket] = NoSubscriptions) =>
                 websocket \in active_connections'["all"]
       /\ Len(log') > Len(log) => active_connections["all"] \subseteq BegunTargets]_vars

\* the connection sets that hold a websocket
ConnectionSetsOf(websocket) ==
    {<<"active", k>> : k \in {x \in DOMAIN active_connections : websocket \in active_connections[x]}}
        \cup {<<"project", p>> : p \in {x \in Projects : websocket \in project_connections[x]}}
        \cup {<<"agent", a>> : a \in {x \in Agents : websocket \in agent_connections[x]}}

\* C29: once disconnect(websocket) has completed, the websocket is in no
\* connection set (active_connections, project_connections,
\* agent_connections), whatever connects, "subscribe" and "unsubscribe"
\* messages and broadcasts came before.
C29_DisconnectedInNoSet ==
    \A websocket \in dropped : ConnectionSetsOf(websocket) = {}

\* the errors _retry_operation can be called with, and the largest max_retries
\* among them
ErrorsRetried ==
    {RetryError(Raised(outcome)) : outcome \in Outcomes \ {"return"}} \ {NoError}
MostRetries ==
    CHOOSE n \in {e.max_retries : e \in ErrorsRetried} :
        \A e \in ErrorsRetried : e.max_retries <= n

\* the operation is COMPLETED or FAILED, in no queue and not active
Rests(o) ==
    /\ status[o] \in {"completed", "failed"}
    /\ \A q \in QueueNames : ~InHeap(queues[q], o)
    /\ o \notin active_operations

====
